---- MODULE Spec2Model ----
(***************************************************************************)
(* The dProfiler Kubernetes operator (src/k8s/operator/controller.py):     *)
(* the AlgorithmProfiling watcher, its event handlers, the three dispatch  *)
(* paths (sorting, ml, custom), the two polling monitors and the status    *)
(* patches, together with the parts of the environment the operator talks  *)
(* to: the resource store and its watch stream, the dProfiler API job      *)
(* table, the ML endpoints and the cluster's batch jobs; and the           *)
(* AlgorithmComparison watcher with its single comparison call.            *)
(* The dProfiler API service itself (src/api/main.py) and the worker task   *)
(* (src/workers/tasks.py) are modelled beside it, over their own database.  *)
(***************************************************************************)
EXTENDS Integers, Sequences, FiniteSets, TLC

VARIABLES
    store,          \* name -> the AlgorithmProfiling resource (spec + status)
    stream,         \* events the current watch has still to yield, in order
    pc,             \* where the coroutine watch_algorithm_profilings stands
    restarts,       \* how many times the while-True loop re-created its Watch
    psJobs,         \* dProfiler API job table: job_id -> status
    nextJob,        \* number of job_ids the dProfiler API has generated
    clusterJobs,    \* batch jobs of the cluster, by the resource they belong to
    hist,           \* per resource: the phase values written to its status
    calls,          \* per resource: the backend calls the operator has issued
    offer,          \* per name: the declarations users may submit under it
    cmp,            \* the AlgorithmComparison kind: its store, stream and watcher
    api             \* the dProfiler API service: its database, task queue and worker

vars == <<store, stream, pc, restarts, psJobs, nextJob, clusterJobs, hist, calls, offer, cmp, api>>

----------------------------------------------------------------------------
(* Bounds of the model *)

\* the dProfiler API generates at most this many job ids
MaxJobs == 2
\* and at most this many comparison ids
MaxCompares == 1
\* the watch loop re-creates its Watch at most this many times
MaxRestarts == 2
\* the poll counter of a monitor run saturates here
MaxPolls == 2
\* the declared timeout of a resource, in poll intervals
Timeout == 1
MaxRedeliveries == 1

----------------------------------------------------------------------------
(* Resources and their declared fields *)

NameOrder == <<"r1", "r2">>
Names == {NameOrder[i] : i \in 1..Len(NameOrder)}

EmptyDict == [k \in {} |-> ""]

\* dict.get(key, default)
Get(d, k, default) == IF k \in DOMAIN d THEN d[k] ELSE default

\* JSON merge of a status patch into the status subtree: keys of the patch
\* replace the keys of the status, lists (conditions) included
Merge(status, patch) ==
    [k \in DOMAIN status \cup DOMAIN patch |->
        IF k \in DOMAIN patch THEN patch[k] ELSE status[k]]

MlConfigs ==
    { EmptyDict,
      [task |-> "hyperparameter_tuning"],
      [task |-> "clustering"] }

CustomConfigs ==
    { [image |-> "alpine:latest", command |-> <<"echo">>, args |-> <<"hi">>],
      [image |-> "busybox"] }

ResourceSpecs ==
    { [algorithmType |-> "sorting", mlConfig |-> EmptyDict, customConfig |-> EmptyDict] }
    \cup { [algorithmType |-> "ml", mlConfig |-> m, customConfig |-> EmptyDict] :
             m \in MlConfigs }
    \cup { [algorithmType |-> "custom", mlConfig |-> EmptyDict, customConfig |-> c] :
             c \in CustomConfigs }

NoSpec == [algorithmType |-> "", mlConfig |-> EmptyDict, customConfig |-> EmptyDict]

Terminal == {"Completed", "Failed"}

\* status.phase of a resource, "" when the status or the key is absent
PhaseOf(r) == Get(store[r].status, "phase", "")
\* status.jobId of a resource, "" when absent
JobIdOf(r) == Get(store[r].status, "jobId", "")

\* the object an event carries: the resource as it was when the event was made
Obj(s, r) == [name |-> r, hasStatus |-> s[r].hasStatus, status |-> s[r].status]

Event(type, s, r) == [type |-> type, object |-> Obj(s, r)]

AtStream == [at |-> "stream", name |-> "", job |-> "", polls |-> 0]
AtSleep == [at |-> "sleep", name |-> "", job |-> "", polls |-> 0]

\* made: how many batch jobs create_namespaced_job has made for the resource
NoClusterJob ==
    [exists |-> FALSE, image |-> "", command |-> <<>>, args |-> <<>>,
     succeeded |-> 0, failed |-> 0, made |-> 0]

\* create: job-creation calls (POST /api/v1/jobs, create_namespaced_job);
\* ml: the ML endpoints called; redispatched: a creation or ML call was issued
\* while status.jobId was already set; polled: a status poll was issued;
\* polledAfterDelete: one was issued after the resource had been deleted;
\* pollErrors: the monitor rounds that raised, one after the other, up to now;
\* cleanup: the job ids of the DELETE calls; deleteSeen: the DELETED event of the
\* resource was handed to cleanup_algorithm_profiling_job; monitors: the monitor
\* loops that are running for the resource
NoCalls == [create |-> 0, ml |-> <<>>, redispatched |-> FALSE, polled |-> FALSE,
            polledAfterDelete |-> FALSE, pollErrors |-> 0, cleanup |-> <<>>,
            deleteSeen |-> FALSE, monitors |-> 0]

\* one resource, of any job type
OneResource == ("r1" :> ResourceSpecs) @@ ("r2" :> {})

\* the AlgorithmComparison resources
CmpNameOrder == <<"c1">>
CmpNames == {CmpNameOrder[i] : i \in 1..Len(CmpNameOrder)}

\* declarations of a comparison: the algorithm entries to compare, and the
\* input size, which a declaration may leave out
CmpSpecs ==
    { [algorithms |-> <<"bubble_sort", "quick_sort">>, inputSize |-> 1000],
      [algorithms |-> <<"bubble_sort", "quick_sort", "merge_sort">>, inputSize |-> 1000],
      [algorithms |-> <<"bubble_sort", "quick_sort">>] }

\* the frameworks MLProfiler.compare_frameworks runs the algorithm with: the
\* sub-jobs of one comparison call
FrameworkOrder == <<"sklearn", "dask">>
Frameworks == {FrameworkOrder[i] : i \in 1..Len(FrameworkOrder)}

CmpAtStream == [at |-> "stream", name |-> ""]
CmpAtSleep == [at |-> "sleep", name |-> ""]

\* compare: POST /api/v1/ml/compare-frameworks calls issued; answered: the last
\* one returned 200; subFailed: the sub-jobs that failed inside the last call
NoCmpCalls == [compare |-> 0, answered |-> FALSE, subFailed |-> {}]

CmpInit ==
    [store |-> [c \in CmpNames |->
                  [created |-> FALSE, exists |-> FALSE, spec |-> EmptyDict,
                   hasStatus |-> FALSE, status |-> EmptyDict, lateWrite |-> FALSE]],
     stream |-> <<>>,
     pc |-> CmpAtStream,
     restarts |-> 0,
     nextId |-> 0,
     hist |-> [c \in CmpNames |-> <<>>],
     calls |-> [c \in CmpNames |-> NoCmpCalls]]

\* the algorithm names a client may ask for
AlgorithmNames == {"bubble_sort", "quick_sort"}

\* the algorithm lists a client may post to /api/v1/compare
CompareLists ==
    { <<>>, <<"bubble_sort">>, <<"bubble_sort", "quick_sort">>,
      <<"quick_sort", "quick_sort">> }

\* a row of the jobs table
NewJob(algorithm_name) ==
    [algorithm_name |-> algorithm_name, status |-> "pending",
     started_at |-> FALSE, completed_at |-> FALSE, error_message |-> ""]

NoResponse == [op |-> "", id |-> "", db |-> "ok", code |-> 0, body |-> EmptyDict]

\* jobs: the jobs table, by job_id; results: the rows of profiling_results per
\* job; tasks: the profile_algorithm_task message of each job; asked: the
\* algorithm_name each create_job request carried; redelivered: how often the
\* broker delivered a message again; resp: the last response
ApiInit ==
    [jobs |-> EmptyDict,
     results |-> EmptyDict,
     tasks |-> EmptyDict,
     asked |-> EmptyDict,
     nextId |-> 0,
     nextCmp |-> 0,
     redelivered |-> 0,
     resp |-> NoResponse]

Init ==
    /\ offer = OneResource
    /\ cmp = CmpInit
    /\ api = ApiInit
    /\ store = [r \in Names |->
                  [created |-> FALSE, exists |-> FALSE, spec |-> NoSpec,
                   hasStatus |-> FALSE, status |-> EmptyDict,
                   deletedDown |-> FALSE, lateWrite |-> FALSE]]
    /\ stream = <<>>
    /\ pc = AtStream
    /\ restarts = 0
    /\ psJobs = EmptyDict
    /\ nextJob = 0
    /\ clusterJobs = [r \in Names |-> NoClusterJob]
    /\ hist = [r \in Names |-> <<>>]
    /\ calls = [r \in Names |-> NoCalls]

----------------------------------------------------------------------------
(* The resource store: status patches and the events they cause *)

\* A watch is open unless the loop is in its sleep between two watches
Watching(p) == p.at # "sleep"

\* One patch_namespaced_custom_object_status call. w is the world the call acts
\* on, [store, stream, hist]; ok is whether the API server accepts the call. The
\* call fails (ApiException, swallowed by the caller) when the resource is gone.
\* An accepted patch that changes the object makes a MODIFIED event; a patch that
\* carries conditions always changes it (lastTransitionTime). lateWrite notes
\* that a patch call was issued for a resource that had been deleted.
PatchStatus(w, r, patch, ok) ==
    IF w.store[r].created /\ ~w.store[r].exists
    THEN [w EXCEPT !.store[r].lateWrite = TRUE]
    ELSE IF ~(w.store[r].exists /\ ok) THEN w
    ELSE LET merged == Merge(w.store[r].status, patch)
             s2 == [w.store EXCEPT ![r].status = merged, ![r].hasStatus = TRUE]
             changed == "conditions" \in DOMAIN patch
                        \/ merged # w.store[r].status
                        \/ ~w.store[r].hasStatus
         IN [store |-> s2,
             stream |-> IF changed /\ w.watching
                        THEN Append(w.stream, Event("MODIFIED", s2, r))
                        ELSE w.stream,
             hist |-> IF "phase" \in DOMAIN patch
                      THEN [w.hist EXCEPT ![r] = Append(@, patch["phase"])]
                      ELSE w.hist,
             watching |-> w.watching]

World == [store |-> store, stream |-> stream, hist |-> hist, watching |-> Watching(pc)]

\* the body of update_algorithm_profiling_phase
PhasePatch(phase, message) ==
    LET base == [phase |-> phase,
                 conditions |-> << [type |-> "Ready",
                                    status |-> IF phase = "Completed" THEN "True" ELSE "False",
                                    reason |-> phase,
                                    message |-> message] >>]
    IN IF phase = "Running" THEN Merge(base, [startTime |-> "now"])
       ELSE IF phase \in Terminal THEN Merge(base, [completionTime |-> "now"])
       ELSE base

update_algorithm_profiling_phase(w, r, phase, message, ok) ==
    PatchStatus(w, r, PhasePatch(phase, message), ok)

update_algorithm_profiling_job_id(w, r, job_id, ok) ==
    PatchStatus(w, r, [jobId |-> job_id], ok)

\* results is the payload dict; absent keys get the defaults of the code
update_algorithm_profiling_results(w, r, results, ok) ==
    PatchStatus(w, r,
        [results |-> [executionTime |-> Get(results, "execution_time", "0"),
                      framework |-> Get(results, "framework", "None")]],
        ok)

----------------------------------------------------------------------------
(* Environment: whoever submits and deletes resources *)

CreateResource(r, sp) ==
    /\ ~store[r].created
    /\ sp \in offer[r]
    /\ LET s2 == [store EXCEPT ![r].created = TRUE, ![r].exists = TRUE, ![r].spec = sp]
       IN /\ store' = s2
          /\ stream' = IF Watching(pc) THEN Append(stream, Event("ADDED", s2, r))
                       ELSE stream
    /\ UNCHANGED <<pc, restarts, psJobs, nextJob, clusterJobs, hist, calls, offer, cmp, api>>

\* deletedDown notes that the resource was deleted while no Watch was open
DeleteResource(r) ==
    /\ store[r].exists
    /\ store' = [store EXCEPT ![r].exists = FALSE, ![r].deletedDown = ~Watching(pc)]
    /\ stream' = IF Watching(pc) THEN Append(stream, Event("DELETED", store, r))
                 ELSE stream
    /\ UNCHANGED <<pc, restarts, psJobs, nextJob, clusterJobs, hist, calls, offer, cmp, api>>

----------------------------------------------------------------------------
(* Environment: the dProfiler API worker and the cluster's job controller *)

\* profile_algorithm_task takes a pending job and marks it running
WorkerStart(j) ==
    /\ j \in DOMAIN psJobs
    /\ psJobs[j] = "pending"
    /\ psJobs' = [psJobs EXCEPT ![j] = "running"]
    /\ UNCHANGED <<store, stream, pc, restarts, nextJob, clusterJobs, hist, calls, offer, cmp, api>>

\* profile_algorithm_task ends: result saved and job completed, or job failed
WorkerFinish(j, outcome) ==
    /\ j \in DOMAIN psJobs
    /\ psJobs[j] = "running"
    /\ psJobs' = [psJobs EXCEPT ![j] = outcome]
    /\ UNCHANGED <<store, stream, pc, restarts, nextJob, clusterJobs, hist, calls, offer, cmp, api>>

\* a pod of the batch job fails (job.status.failed) or succeeds
\* (job.status.succeeded); a failed pod may be retried and succeed later
ClusterJobStep(r, field) ==
    /\ clusterJobs[r].exists
    /\ clusterJobs[r].succeeded = 0
    /\ clusterJobs[r][field] = 0
    /\ clusterJobs' = [clusterJobs EXCEPT ![r][field] = 1]
    /\ UNCHANGED <<store, stream, pc, restarts, psJobs, nextJob, hist, calls, offer, cmp, api>>

----------------------------------------------------------------------------
(* The watcher: watch_algorithm_profilings and the handlers it awaits *)

HeadIs(type) ==
    /\ pc.at = "stream"
    /\ stream # <<>>
    /\ Head(stream).type = type

\* the world a handler starts from: the event has left the stream
Taken == [World EXCEPT !.stream = Tail(stream)]

SetWorld(w) ==
    /\ store' = w.store
    /\ stream' = w.stream
    /\ hist' = w.hist

DefaultMessage(phase) ==
    CASE phase = "Running" -> "Algorithm profiling running"
      [] phase = "Completed" -> "Algorithm profiling completed"
      [] phase = "Failed" -> "Algorithm profiling failed"
      [] OTHER -> "Algorithm profiling"

\* ADDED: create_algorithm_profiling_job up to its first backend call: the phase
\* is patched to Running before the job type is looked at
HandleAdded ==
    /\ HeadIs("ADDED")
    /\ LET r == Head(stream).object.name
       IN \E ok \in BOOLEAN :
            /\ SetWorld(update_algorithm_profiling_phase(
                            Taken, r, "Running", DefaultMessage("Running"), ok))
            /\ pc' = [at |-> "dispatch", name |-> r, job |-> "", polls |-> 0]
    /\ UNCHANGED <<restarts, psJobs, nextJob, clusterJobs, calls, offer, cmp, api>>

\* the except branch of create_algorithm_profiling_job: phase Failed with str(e)
DispatchFailed(r, message, ok) ==
    /\ SetWorld(update_algorithm_profiling_phase(World, r, "Failed", message, ok))
    /\ pc' = AtStream

NewJobId == "J" \o ToString(nextJob + 1)

\* create_sorting_profiling_job as it would be if the monitor were started as a
\* task of its own and the handler returned at once
create_sorting_profiling_job_spawning ==
    /\ pc.at = "dispatch"
    /\ store[pc.name].spec.algorithmType \notin {"ml", "custom"}
    /\ LET r == pc.name
       IN \E resp \in {"ok", "error"}, ok \in BOOLEAN :
            /\ calls' = [calls EXCEPT ![r].create = @ + 1,
                                      ![r].redispatched = @ \/ JobIdOf(r) # "",
                                      ![r].monitors = IF resp = "ok" THEN @ + 1 ELSE @]
            /\ IF resp = "ok"
               THEN /\ psJobs' = (NewJobId :> "pending") @@ psJobs
                    /\ nextJob' = nextJob + 1
                    /\ SetWorld(update_algorithm_profiling_job_id(World, r, NewJobId, ok))
                    /\ pc' = AtStream
               ELSE /\ DispatchFailed(r, "HTTPStatusError", ok)
                    /\ UNCHANGED <<psJobs, nextJob>>
    /\ UNCHANGED <<restarts, clusterJobs, offer, cmp, api>>

\* create_sorting_profiling_job: POST /api/v1/jobs, then the job id is patched
\* and the monitor is entered; a failed call re-raises into DispatchFailed
create_sorting_profiling_job ==
    /\ pc.at = "dispatch"
    /\ store[pc.name].spec.algorithmType \notin {"ml", "custom"}
    /\ LET r == pc.name
       IN \E resp \in {"ok", "error"}, ok \in BOOLEAN :
            /\ calls' = [calls EXCEPT ![r].create = @ + 1,
                                      ![r].redispatched = @ \/ JobIdOf(r) # "",
                                      ![r].monitors = IF resp = "ok" THEN @ + 1 ELSE @]
            /\ IF resp = "ok"
               THEN /\ psJobs' = (NewJobId :> "pending") @@ psJobs
                    /\ nextJob' = nextJob + 1
                    /\ SetWorld(update_algorithm_profiling_job_id(World, r, NewJobId, ok))
                    /\ pc' = [at |-> "monitor", name |-> r, job |-> NewJobId, polls |-> 0]
               ELSE /\ DispatchFailed(r, "HTTPStatusError", ok)
                    /\ UNCHANGED <<psJobs, nextJob>>
    /\ UNCHANGED <<restarts, clusterJobs, offer, cmp, api>>

MlEndpoint(task) ==
    CASE task = "feature_selection" -> "/api/v1/ml/feature-selection"
      [] task = "hyperparameter_tuning" -> "/api/v1/ml/hyperparameter-tuning"
      [] task = "distributed_training" -> "/api/v1/ml/distributed-training"
      [] OTHER -> ""

\* create_ml_profiling_job as it would be if the ML path ended like the sorting
\* path, in the polling monitor of the job the response names
create_ml_profiling_job_monitored ==
    /\ pc.at = "dispatch"
    /\ store[pc.name].spec.algorithmType = "ml"
    /\ LET r == pc.name
           task == Get(store[r].spec.mlConfig, "task", "feature_selection")
           endpoint == MlEndpoint(task)
       IN \E resp \in {"ok", "error"}, ok1 \in BOOLEAN, ok2 \in BOOLEAN :
            IF endpoint = ""
            THEN /\ resp = "error" /\ ok2
                 /\ DispatchFailed(r, "UnboundLocalError", ok1)
                 /\ UNCHANGED <<psJobs, nextJob, calls>>
            ELSE /\ calls' = [calls EXCEPT ![r].ml = Append(@, endpoint),
                                           ![r].redispatched = @ \/ JobIdOf(r) # "",
                                           ![r].monitors = IF resp = "ok" THEN @ + 1 ELSE @]
                 /\ IF resp = "ok"
                    THEN /\ psJobs' = (NewJobId :> "completed") @@ psJobs
                         /\ nextJob' = nextJob + 1
                         /\ ok2
                         /\ SetWorld(update_algorithm_profiling_job_id(World, r, NewJobId, ok1))
                         /\ pc' = [at |-> "monitor", name |-> r, job |-> NewJobId, polls |-> 0]
                    ELSE /\ ok2
                         /\ DispatchFailed(r, "HTTPStatusError", ok1)
                         /\ UNCHANGED <<psJobs, nextJob>>
    /\ UNCHANGED <<restarts, clusterJobs, offer, cmp, api>>

\* create_ml_profiling_job: one synchronous POST to the endpoint of the task; the
\* response carries job_id and the metrics, which are patched at once. A task
\* with no branch leaves response unbound (UnboundLocalError, no call made).
create_ml_profiling_job ==
    /\ pc.at = "dispatch"
    /\ store[pc.name].spec.algorithmType = "ml"
    /\ LET r == pc.name
           task == Get(store[r].spec.mlConfig, "task", "feature_selection")
           endpoint == MlEndpoint(task)
       IN \E resp \in {"ok", "error"}, ok1 \in BOOLEAN, ok2 \in BOOLEAN :
            IF endpoint = ""
            THEN /\ resp = "error" /\ ok2
                 /\ DispatchFailed(r, "UnboundLocalError", ok1)
                 /\ UNCHANGED <<psJobs, nextJob, calls>>
            ELSE /\ calls' = [calls EXCEPT ![r].ml = Append(@, endpoint),
                                           ![r].redispatched = @ \/ JobIdOf(r) # ""]
                 /\ IF resp = "ok"
                    THEN /\ psJobs' = (NewJobId :> "completed") @@ psJobs
                         /\ nextJob' = nextJob + 1
                         /\ SetWorld(update_algorithm_profiling_results(
                                update_algorithm_profiling_job_id(World, r, NewJobId, ok1),
                                r, [execution_time |-> "t", framework |-> "sklearn"], ok2))
                         /\ pc' = AtStream
                    ELSE /\ ok2
                         /\ DispatchFailed(r, "HTTPStatusError", ok1)
                         /\ UNCHANGED <<psJobs, nextJob>>
    /\ UNCHANGED <<restarts, clusterJobs, offer, cmp, api>>

\* metadata.name of the V1Job built for a resource
ClusterJobName(r) == "dprofiler-" \o r

\* create_custom_profiling_job as it would be if the V1Job had a generated name
\* instead of one derived from the resource: no creation meets a conflict
create_custom_profiling_job_unnamed ==
    /\ pc.at = "dispatch"
    /\ store[pc.name].spec.algorithmType = "custom"
    /\ LET r == pc.name
           custom_config == store[r].spec.customConfig
       IN \E resp \in {"ok", "error"}, ok \in BOOLEAN :
            /\ calls' = [calls EXCEPT ![r].create = @ + 1,
                                      ![r].redispatched = @ \/ JobIdOf(r) # "",
                                      ![r].monitors =
                                          IF resp = "ok"
                                          THEN @ + 1 ELSE @]
            /\ IF resp = "ok"
               THEN /\ clusterJobs' = [clusterJobs EXCEPT ![r] =
                           [exists |-> TRUE,
                            image |-> Get(custom_config, "image", "alpine:latest"),
                            command |-> Get(custom_config, "command", <<"echo">>),
                            args |-> Get(custom_config, "args", <<"Hello World">>),
                            succeeded |-> 0, failed |-> 0,
                            made |-> clusterJobs[r].made + 1]]
                    /\ SetWorld(update_algorithm_profiling_job_id(
                                    World, r, ClusterJobName(r), ok))
                    /\ pc' = [at |-> "monitor_custom", name |-> r,
                              job |-> ClusterJobName(r), polls |-> 0]
               ELSE /\ DispatchFailed(r, "ApiException", ok)
                    /\ UNCHANGED clusterJobs
    /\ UNCHANGED <<restarts, psJobs, nextJob, offer, cmp, api>>

\* create_custom_profiling_job: a V1Job named after the resource, its container
\* taken from customConfig; creating a job whose name exists is a 409 conflict
create_custom_profiling_job ==
    /\ pc.at = "dispatch"
    /\ store[pc.name].spec.algorithmType = "custom"
    /\ LET r == pc.name
           custom_config == store[r].spec.customConfig
       IN \E resp \in {"ok", "error"}, ok \in BOOLEAN :
            /\ calls' = [calls EXCEPT ![r].create = @ + 1,
                                      ![r].redispatched = @ \/ JobIdOf(r) # "",
                                      ![r].monitors =
                                          IF resp = "ok" /\ ~clusterJobs[r].exists
                                          THEN @ + 1 ELSE @]
            /\ IF resp = "ok" /\ ~clusterJobs[r].exists
               THEN /\ clusterJobs' = [clusterJobs EXCEPT ![r] =
                           [exists |-> TRUE,
                            image |-> Get(custom_config, "image", "alpine:latest"),
                            command |-> Get(custom_config, "command", <<"echo">>),
                            args |-> Get(custom_config, "args", <<"Hello World">>),
                            succeeded |-> 0, failed |-> 0,
                            made |-> clusterJobs[r].made + 1]]
                    /\ SetWorld(update_algorithm_profiling_job_id(
                                    World, r, ClusterJobName(r), ok))
                    /\ pc' = [at |-> "monitor_custom", name |-> r,
                              job |-> ClusterJobName(r), polls |-> 0]
               ELSE /\ DispatchFailed(r, "ApiException", ok)
                    /\ UNCHANGED clusterJobs
    /\ UNCHANGED <<restarts, psJobs, nextJob, offer, cmp, api>>

\* a monitor went round its loop once more (asyncio.sleep(10) or sleep(30))
PollAgain == pc' = [pc EXCEPT !.polls = IF @ < MaxPolls THEN @ + 1 ELSE @]

\* a monitor round was made; err: its calls raised (transport error, non-2xx),
\* which pollErrors counts while the rounds fail one after the other; a round
\* that leaves the loop ends the monitor
Polled(r, err) ==
    calls' = [calls EXCEPT ![r].polled = TRUE,
                           ![r].polledAfterDelete = @ \/ ~store[r].exists,
                           ![r].pollErrors = IF ~err THEN 0
                                             ELSE IF @ < MaxPolls THEN @ + 1 ELSE @,
                           ![r].monitors = IF pc'.at = "stream" THEN @ - 1 ELSE @]

\* monitor_profiling_job as it would be if a status call that raised ended the
\* monitor with phase Failed
monitor_profiling_job_giving_up ==
    /\ pc.at = "monitor"
    /\ LET r == pc.name
           status == psJobs[pc.job]
       IN \E resp \in {"ok", "error"}, resp2 \in {"ok", "error"}, ok \in BOOLEAN :
            /\ IF resp = "error" \/ status = "none"
               THEN /\ resp2 = "ok"
                    /\ SetWorld(update_algorithm_profiling_phase(
                                    World, r, "Failed", "Job failed", ok))
                    /\ pc' = AtStream
               ELSE IF status = "completed"
               THEN IF resp2 = "ok"
                    THEN /\ SetWorld(update_algorithm_profiling_results(
                                World, r, [execution_time |-> "t"], ok))
                         /\ pc' = AtStream
                    ELSE /\ ok
                         /\ PollAgain
                         /\ UNCHANGED <<store, stream, hist>>
               ELSE IF status = "failed"
               THEN /\ resp2 = "ok"
                    /\ SetWorld(update_algorithm_profiling_phase(
                                    World, r, "Failed", "Job failed", ok))
                    /\ pc' = AtStream
               ELSE /\ resp2 = "ok" /\ ok
                    /\ PollAgain
                    /\ UNCHANGED <<store, stream, hist>>
            /\ Polled(r, resp = "error" \/ status = "none"
                            \/ (status = "completed" /\ resp2 = "error"))
    /\ UNCHANGED <<restarts, psJobs, nextJob, clusterJobs, offer, cmp, api>>

\* one round of monitor_profiling_job: GET /api/v1/jobs/{job_id}; on completed
\* GET the results and patch them; on failed patch phase Failed; any exception
\* (transport error, non-2xx, 404 of a deleted job) is logged and the loop goes on
monitor_profiling_job ==
    /\ pc.at = "monitor"
    /\ LET r == pc.name
           status == psJobs[pc.job]
       IN \E resp \in {"ok", "error"}, resp2 \in {"ok", "error"}, ok \in BOOLEAN :
            /\ IF resp = "error" \/ status = "none"
               THEN /\ resp2 = "ok" /\ ok
                    /\ PollAgain
                    /\ UNCHANGED <<store, stream, hist>>
               ELSE IF status = "completed"
               THEN IF resp2 = "ok"
                    THEN /\ SetWorld(update_algorithm_profiling_results(
                                World, r, [execution_time |-> "t"], ok))
                         /\ pc' = AtStream
                    ELSE /\ ok
                         /\ PollAgain
                         /\ UNCHANGED <<store, stream, hist>>
               ELSE IF status = "failed"
               THEN /\ resp2 = "ok"
                    /\ SetWorld(update_algorithm_profiling_phase(
                                    World, r, "Failed", "Job failed", ok))
                    /\ pc' = AtStream
               ELSE /\ resp2 = "ok" /\ ok
                    /\ PollAgain
                    /\ UNCHANGED <<store, stream, hist>>
            /\ Polled(r, resp = "error" \/ status = "none"
                            \/ (status = "completed" /\ resp2 = "error"))
    /\ UNCHANGED <<restarts, psJobs, nextJob, clusterJobs, offer, cmp, api>>

\* monitor_custom_job as it would be if it took any finished job for a success
monitor_custom_job_any_end ==
    /\ pc.at = "monitor_custom"
    /\ LET r == pc.name
           job == clusterJobs[r]
       IN \E resp \in {"ok", "error"}, ok \in BOOLEAN :
            /\ IF resp = "error"
               THEN /\ ok
                    /\ PollAgain
                    /\ UNCHANGED <<store, stream, hist>>
               ELSE IF job.succeeded # 0 \/ job.failed # 0
               THEN /\ SetWorld(update_algorithm_profiling_phase(
                                    World, r, "Completed", DefaultMessage("Completed"), ok))
                    /\ pc' = AtStream
               ELSE /\ ok
                    /\ PollAgain
                    /\ UNCHANGED <<store, stream, hist>>
            /\ Polled(r, resp = "error")
    /\ UNCHANGED <<restarts, psJobs, nextJob, clusterJobs, offer, cmp, api>>

\* one round of monitor_custom_job: read_namespaced_job; succeeded is looked at
\* before failed
monitor_custom_job ==
    /\ pc.at = "monitor_custom"
    /\ LET r == pc.name
           job == clusterJobs[r]
       IN \E resp \in {"ok", "error"}, ok \in BOOLEAN :
            /\ IF resp = "error"
               THEN /\ ok
                    /\ PollAgain
                    /\ UNCHANGED <<store, stream, hist>>
               ELSE IF job.succeeded # 0
               THEN /\ SetWorld(update_algorithm_profiling_phase(
                                    World, r, "Completed", DefaultMessage("Completed"), ok))
                    /\ pc' = AtStream
               ELSE IF job.failed # 0
               THEN /\ SetWorld(update_algorithm_profiling_phase(
                                    World, r, "Failed", "Custom job failed", ok))
                    /\ pc' = AtStream
               ELSE /\ ok
                    /\ PollAgain
                    /\ UNCHANGED <<store, stream, hist>>
            /\ Polled(r, resp = "error")
    /\ UNCHANGED <<restarts, psJobs, nextJob, clusterJobs, offer, cmp, api>>

\* WatchFailed as it would be without the try/except inside the while-True
\* loop: the exception ends the coroutine
WatchFailed_fatal ==
    /\ pc' = [at |-> "stopped", name |-> "", job |-> "", polls |-> 0]
    /\ stream' = <<>>

\* an exception leaves the for loop: the Watch is dropped with what it had still
\* to yield, and the loop sleeps before it makes a new one
WatchFailed ==
    /\ pc' = AtSleep
    /\ stream' = <<>>

\* MODIFIED: update_algorithm_profiling_status is no method of the operator, so
\* the handler raises AttributeError into the watch loop
HandleModified ==
    /\ HeadIs("MODIFIED")
    /\ WatchFailed
    /\ UNCHANGED <<store, restarts, psJobs, nextJob, clusterJobs, hist, calls, offer, cmp, api>>

\* HandleDeleted as it would be if DELETED events were handled by a task of
\* their own, which may overtake the events that arrived before it
HandleDeleted_overtaking ==
    /\ pc.at = "stream"
    /\ \E i \in 1..Len(stream) :
         /\ stream[i].type = "DELETED"
         /\ LET obj == stream[i].object
                r == obj.name
                job_id == Get(obj.status, "jobId", "")
                seen == [calls EXCEPT ![r].deleteSeen = TRUE]
            IN IF ~obj.hasStatus
               THEN /\ WatchFailed
                    /\ calls' = seen
                    /\ UNCHANGED psJobs
               ELSE /\ pc' = AtStream
                    /\ stream' = SubSeq(stream, 1, i - 1) \o SubSeq(stream, i + 1, Len(stream))
                    /\ IF job_id # ""
                       THEN \E resp \in {"ok", "error"} :
                              /\ calls' = [seen EXCEPT ![r].cleanup = Append(@, job_id)]
                              /\ psJobs' = IF resp = "ok" /\ job_id \in DOMAIN psJobs
                                           THEN [psJobs EXCEPT ![job_id] = "none"]
                                           ELSE psJobs
                       ELSE /\ calls' = seen
                            /\ UNCHANGED psJobs
    /\ UNCHANGED <<store, restarts, nextJob, clusterJobs, hist, offer, cmp, api>>

\* DELETED: cleanup_algorithm_profiling_job. obj['status'] raises KeyError when
\* the object has no status; with a job id, one DELETE /api/v1/jobs/{job_id} is
\* sent to the dProfiler API, whatever the job type, and its failure is logged
HandleDeleted ==
    /\ HeadIs("DELETED")
    /\ LET obj == Head(stream).object
           r == obj.name
           job_id == Get(obj.status, "jobId", "")
           seen == [calls EXCEPT ![r].deleteSeen = TRUE]
       IN IF ~obj.hasStatus
          THEN /\ WatchFailed
               /\ calls' = seen
               /\ UNCHANGED psJobs
          ELSE /\ pc' = AtStream
               /\ stream' = Tail(stream)
               /\ IF job_id # ""
                  THEN \E resp \in {"ok", "error"} :
                         /\ calls' = [seen EXCEPT ![r].cleanup = Append(@, job_id)]
                         /\ psJobs' = IF resp = "ok" /\ job_id \in DOMAIN psJobs
                                      THEN [psJobs EXCEPT ![job_id] = "none"]
                                      ELSE psJobs
                  ELSE /\ calls' = seen
                       /\ UNCHANGED psJobs
    /\ UNCHANGED <<store, restarts, nextJob, clusterJobs, hist, offer, cmp, api>>

\* w.stream raises (connection error, expired resource version)
StreamError ==
    /\ pc.at = "stream"
    /\ WatchFailed
    /\ UNCHANGED <<store, restarts, psJobs, nextJob, clusterJobs, hist, calls, offer, cmp, api>>

RECURSIVE ListEvents(_, _)
\* what a new Watch without a resource version yields first: ADDED for every
\* resource that exists, in the order of the list
ListEvents(s, i) ==
    IF i > Len(NameOrder) THEN <<>>
    ELSE (IF s[NameOrder[i]].exists THEN <<Event("ADDED", s, NameOrder[i])>> ELSE <<>>)
         \o ListEvents(s, i + 1)

\* after asyncio.sleep(5) the while-True loop makes a new Watch
WatchRestart ==
    /\ pc.at = "sleep"
    /\ restarts < MaxRestarts
    /\ restarts' = restarts + 1
    /\ pc' = AtStream
    /\ stream' = ListEvents(store, 1)
    /\ UNCHANGED <<store, psJobs, nextJob, clusterJobs, hist, calls, offer, cmp, api>>

Next ==
    \/ HandleAdded
    \/ create_sorting_profiling_job
    \/ create_ml_profiling_job
    \/ create_custom_profiling_job
    \/ monitor_profiling_job
    \/ monitor_custom_job
    \/ HandleModified
    \/ HandleDeleted
    \/ StreamError
    \/ WatchRestart
    \/ \E j \in DOMAIN psJobs : WorkerStart(j)
    \/ \E j \in DOMAIN psJobs, o \in {"completed", "failed"} : WorkerFinish(j, o)
    \/ \E r \in Names, f \in {"succeeded", "failed"} : ClusterJobStep(r, f)
    \/ \E r \in Names, sp \in ResourceSpecs : CreateResource(r, sp)
    \/ \E r \in Names : DeleteResource(r)

Spec == Init /\ [][Next]_vars

\* asyncio resumes the watcher when its asyncio.sleep(5) is over
FairSpec == Spec /\ WF_vars(WatchRestart)

\* two resources: r1 a sorting job, r2 an ml job
TwoResources ==
    ("r1" :> { sp \in ResourceSpecs : sp.algorithmType = "sorting" })
    @@ ("r2" :> { sp \in ResourceSpecs :
                    sp.algorithmType = "ml" /\ sp.mlConfig = EmptyDict })

Init2 ==
    /\ offer = TwoResources
    /\ cmp = CmpInit
    /\ api = ApiInit
    /\ store = [r \in Names |->
                  [created |-> FALSE, exists |-> FALSE, spec |-> NoSpec,
                   hasStatus |-> FALSE, status |-> EmptyDict,
                   deletedDown |-> FALSE, lateWrite |-> FALSE]]
    /\ stream = <<>>
    /\ pc = AtStream
    /\ restarts = 0
    /\ psJobs = EmptyDict
    /\ nextJob = 0
    /\ clusterJobs = [r \in Names |-> NoClusterJob]
    /\ hist = [r \in Names |-> <<>>]
    /\ calls = [r \in Names |-> NoCalls]

\* the steps of the watcher and of its environment with two such resources, up
\* to the first failure of the Watch
Next2 ==
    \/ HandleAdded
    \/ create_sorting_profiling_job
    \/ create_ml_profiling_job
    \/ monitor_profiling_job
    \/ HandleModified
    \/ HandleDeleted
    \/ \E j \in DOMAIN psJobs : WorkerStart(j)
    \/ \E j \in DOMAIN psJobs, o \in {"completed", "failed"} : WorkerFinish(j, o)
    \/ \E r \in Names, sp \in ResourceSpecs : CreateResource(r, sp)
    \/ \E r \in Names : DeleteResource(r)

Spec2 == Init2 /\ [][Next2]_vars

----------------------------------------------------------------------------
(* The AlgorithmComparison kind: watch_algorithm_comparisons and its handlers *)

profVars == <<store, stream, pc, restarts, psJobs, nextJob, clusterJobs, hist, calls, offer>>

CmpWorld == [store |-> cmp.store, stream |-> cmp.stream, hist |-> cmp.hist,
             watching |-> cmp.pc.at # "sleep"]

CmpTaken == [CmpWorld EXCEPT !.stream = Tail(cmp.stream)]

CmpPhaseOf(c) == Get(cmp.store[c].status, "phase", "")

update_algorithm_comparison_phase(w, c, phase, message, ok) ==
    PatchStatus(w, c, PhasePatch(phase, message), ok)

update_algorithm_comparison_id(w, c, comparison_id, ok) ==
    PatchStatus(w, c, [comparisonId |-> comparison_id], ok)

\* results.get('results', []) of the response: the list is patched as it came
update_algorithm_comparison_results(w, c, results, ok) ==
    PatchStatus(w, c, [results |-> results], ok)

CmpCreateResource(c, sp) ==
    /\ ~cmp.store[c].created
    /\ LET s2 == [cmp.store EXCEPT ![c].created = TRUE, ![c].exists = TRUE,
                                   ![c].spec = sp]
       IN cmp' = [cmp EXCEPT !.store = s2,
                             !.stream = IF cmp.pc.at # "sleep"
                                        THEN Append(@, Event("ADDED", s2, c))
                                        ELSE @]
    /\ UNCHANGED <<profVars, api>>

CmpDeleteResource(c) ==
    /\ cmp.store[c].exists
    /\ cmp' = [cmp EXCEPT !.store[c].exists = FALSE,
                          !.stream = IF cmp.pc.at # "sleep"
                                     THEN Append(@, Event("DELETED", cmp.store, c))
                                     ELSE @]
    /\ UNCHANGED <<profVars, api>>

CmpHeadIs(type) ==
    /\ cmp.pc.at = "stream"
    /\ cmp.stream # <<>>
    /\ Head(cmp.stream).type = type

\* ADDED: create_algorithm_comparison_job up to its backend call: the phase is
\* patched to Running first
CmpHandleAdded ==
    /\ CmpHeadIs("ADDED")
    /\ LET c == Head(cmp.stream).object.name
       IN \E ok \in BOOLEAN :
            LET w == update_algorithm_comparison_phase(
                         CmpTaken, c, "Running", "Algorithm comparison running", ok)
            IN cmp' = [cmp EXCEPT !.store = w.store, !.stream = w.stream,
                                  !.hist = w.hist,
                                  !.pc = [at |-> "dispatch", name |-> c]]
    /\ UNCHANGED <<profVars, api>>

\* what POST /api/v1/ml/compare-frameworks answers when the sub-jobs in failed
\* raised: MLProfiler.compare_frameworks skips them, the others are listed
CompareResults(failed) == SelectSeq(FrameworkOrder, LAMBDA f : f \notin failed)

\* the rest of create_algorithm_comparison_job: spec['inputSize'] is read, one
\* compare-frameworks call is made whatever algorithms the resource declares,
\* its comparison id and results are patched; any exception patches phase Failed
create_algorithm_comparison_job ==
    /\ cmp.pc.at = "dispatch"
    /\ LET c == cmp.pc.name
           spec == cmp.store[c].spec
       IN \E resp \in {"ok", "error"}, failed \in SUBSET Frameworks, ok \in BOOLEAN :
            /\ resp = "error" => failed = {}
            /\ "inputSize" \notin DOMAIN spec => resp = "error"
            /\ LET called == "inputSize" \in DOMAIN spec
                   id == "K" \o ToString(cmp.nextId + 1)
                   w == IF resp = "ok"
                        THEN update_algorithm_comparison_results(
                                 update_algorithm_comparison_id(CmpWorld, c, id, ok),
                                 c, CompareResults(failed), ok)
                        ELSE update_algorithm_comparison_phase(
                                 CmpWorld, c, "Failed", "str(e)", ok)
               IN cmp' = [cmp EXCEPT
                            !.store = w.store, !.stream = w.stream, !.hist = w.hist,
                            !.pc = CmpAtStream,
                            !.nextId = IF resp = "ok" THEN @ + 1 ELSE @,
                            !.calls[c] = IF called
                                         THEN [compare |-> @.compare + 1,
                                               answered |-> resp = "ok",
                                               subFailed |-> failed]
                                         ELSE @]
    /\ UNCHANGED <<profVars, api>>

\* an exception reaches the except clause of watch_algorithm_comparisons: the
\* Watch and what it had still to yield are dropped, the loop sleeps
CmpWatchFailed == [cmp EXCEPT !.pc = CmpAtSleep, !.stream = <<>>]

\* MODIFIED: update_algorithm_comparison_status is no method of the operator
CmpHandleModified ==
    /\ CmpHeadIs("MODIFIED")
    /\ cmp' = CmpWatchFailed
    /\ UNCHANGED <<profVars, api>>

\* DELETED: cleanup_algorithm_comparison_job only logs
CmpHandleDeleted ==
    /\ CmpHeadIs("DELETED")
    /\ cmp' = [cmp EXCEPT !.stream = Tail(@)]
    /\ UNCHANGED <<profVars, api>>

CmpStreamError ==
    /\ cmp.pc.at = "stream"
    /\ cmp' = CmpWatchFailed
    /\ UNCHANGED <<profVars, api>>

RECURSIVE CmpListEvents(_, _)
CmpListEvents(s, i) ==
    IF i > Len(CmpNameOrder) THEN <<>>
    ELSE (IF s[CmpNameOrder[i]].exists
          THEN <<Event("ADDED", s, CmpNameOrder[i])>> ELSE <<>>)
         \o CmpListEvents(s, i + 1)

CmpWatchRestart ==
    /\ cmp.pc.at = "sleep"
    /\ cmp.restarts < MaxRestarts
    /\ cmp' = [cmp EXCEPT !.restarts = @ + 1, !.pc = CmpAtStream,
                          !.stream = CmpListEvents(cmp.store, 1)]
    /\ UNCHANGED <<profVars, api>>

NextCmp ==
    \/ CmpHandleAdded
    \/ create_algorithm_comparison_job
    \/ CmpHandleModified
    \/ CmpHandleDeleted
    \/ CmpStreamError
    \/ CmpWatchRestart
    \/ \E c \in CmpNames, sp \in CmpSpecs : CmpCreateResource(c, sp)
    \/ \E c \in CmpNames : CmpDeleteResource(c)

SpecCmp == Init /\ [][NextCmp]_vars
----------------------------------------------------------------------------
(* start(): the two watchers as coroutines of one event loop *)

\* asyncio.gather runs both watchers on the one thread of the event loop. A
\* watcher gives the thread up only at an await that suspends: the backend call
\* of a dispatch, a poll or sleep of a monitor, the sleep after a failed Watch.
\* Watch.stream is a synchronous generator: a watcher in its for loop, taking
\* events or waiting for the next one, keeps the thread.
ProfilingsYield == pc.at # "stream"
ComparisonsYield == cmp.pc.at # "stream"

\* one sorting resource and one comparison
OneSorting ==
    ("r1" :> { sp \in ResourceSpecs : sp.algorithmType = "sorting" }) @@ ("r2" :> {})

\* gather starts watch_algorithm_profilings first, which makes its Watch and
\* stays in it; watch_algorithm_comparisons has yet to make its first Watch,
\* which it does as it makes a later one
InitBoth ==
    /\ offer = OneSorting
    /\ cmp = [CmpInit EXCEPT !.pc = CmpAtSleep]
    /\ api = ApiInit
    /\ store = [r \in Names |->
                  [created |-> FALSE, exists |-> FALSE, spec |-> NoSpec,
                   hasStatus |-> FALSE, status |-> EmptyDict,
                   deletedDown |-> FALSE, lateWrite |-> FALSE]]
    /\ stream = <<>>
    /\ pc = AtStream
    /\ restarts = 0
    /\ psJobs = EmptyDict
    /\ nextJob = 0
    /\ clusterJobs = [r \in Names |-> NoClusterJob]
    /\ hist = [r \in Names |-> <<>>]
    /\ calls = [r \in Names |-> NoCalls]

\* a step of one watcher is taken while the other does not keep the thread; the
\* profilings watcher is followed up to the first failure of its Watch
NextBoth ==
    \/ ComparisonsYield /\ HandleAdded
    \/ ComparisonsYield /\ create_sorting_profiling_job
    \/ ComparisonsYield /\ monitor_profiling_job
    \/ ComparisonsYield /\ HandleModified
    \/ ProfilingsYield /\ CmpHandleAdded
    \/ ProfilingsYield /\ create_algorithm_comparison_job
    \/ ProfilingsYield /\ CmpHandleModified
    \/ ProfilingsYield /\ CmpWatchRestart
    \/ \E j \in DOMAIN psJobs : WorkerStart(j)
    \/ \E j \in DOMAIN psJobs, o \in {"completed", "failed"} : WorkerFinish(j, o)
    \/ \E r \in Names, sp \in ResourceSpecs : CreateResource(r, sp)
    \/ \E c \in CmpNames, sp \in CmpSpecs : CmpCreateResource(c, sp)

SpecBoth == InitBoth /\ [][NextBoth]_vars


----------------------------------------------------------------------------
(* The dProfiler API service: its job endpoints and the worker task *)

Without(f, k) == [x \in DOMAIN f \ {k} |-> f[x]]

\* str(uuid.uuid4()): an id that was not generated before
NewApiJobId == "U" \o ToString(api.nextId + 1)
NewComparisonId == "X" \o ToString(api.nextCmp + 1)

\* the job ids a client may name in a request
AskIds == {"U" \o ToString(i) : i \in 1..MaxJobs} \cup {"nonexistent-id"}

\* JobResponse.from_orm(job)
JobResponse(id, job) ==
    [job_id |-> id, algorithm_name |-> job.algorithm_name, status |-> job.status,
     error_message |-> job.error_message]

Respond(op, id, db, code, body) ==
    [op |-> op, id |-> id, db |-> db, code |-> code, body |-> body]

\* create_job as it would be if the row were stored as already running
create_job_started(algorithm_name, db) ==
    /\ api.nextId < MaxJobs
    /\ LET id == NewApiJobId
           job == [NewJob(algorithm_name) EXCEPT !.status = "running"]
       IN api' = IF db = "ok"
                 THEN [api EXCEPT
                         !.jobs = (id :> job) @@ @,
                         !.results = (id :> 0) @@ @,
                         !.tasks = (id :> "to_enqueue") @@ @,
                         !.asked = (id :> algorithm_name) @@ @,
                         !.nextId = @ + 1,
                         !.resp = Respond("create", id, db, 200, JobResponse(id, job))]
                 ELSE [api EXCEPT !.resp = Respond("create", "", db, 500, EmptyDict)]
    /\ UNCHANGED <<profVars, cmp>>

\* POST /api/v1/jobs: a row with status pending under a new uuid; the task is
\* handed to the queue after the response. Any exception answers 500.
create_job(algorithm_name, db) ==
    /\ api.nextId < MaxJobs
    /\ LET id == NewApiJobId
           job == NewJob(algorithm_name)
       IN api' = IF db = "ok"
                 THEN [api EXCEPT
                         !.jobs = (id :> job) @@ @,
                         !.results = (id :> 0) @@ @,
                         !.tasks = (id :> "to_enqueue") @@ @,
                         !.asked = (id :> algorithm_name) @@ @,
                         !.nextId = @ + 1,
                         !.resp = Respond("create", id, db, 200, JobResponse(id, job))]
                 ELSE [api EXCEPT !.resp = Respond("create", "", db, 500, EmptyDict)]
    /\ UNCHANGED <<profVars, cmp>>

\* the background task task_queue.add_job: send_task to the profiling queue;
\* when the broker cannot be reached the exception is logged and raised
add_job(id, ok) ==
    /\ id \in DOMAIN api.tasks
    /\ api.tasks[id] = "to_enqueue"
    /\ api' = [api EXCEPT !.tasks[id] = IF ok THEN "queued" ELSE "lost"]
    /\ UNCHANGED <<profVars, cmp>>

\* GET /api/v1/jobs/{job_id}
get_job(id, db) ==
    /\ api' = [api EXCEPT !.resp =
                 IF db # "ok" THEN Respond("get", id, db, 500, EmptyDict)
                 ELSE IF id \notin DOMAIN api.jobs
                 THEN Respond("get", id, db, 404, EmptyDict)
                 ELSE Respond("get", id, db, 200, JobResponse(id, api.jobs[id]))]
    /\ UNCHANGED <<profVars, cmp>>

\* GET /api/v1/jobs/{job_id}/results: the rows of the job
get_job_results(id, db) ==
    /\ api' = [api EXCEPT !.resp =
                 IF db # "ok" THEN Respond("results", id, db, 500, EmptyDict)
                 ELSE IF id \notin DOMAIN api.jobs
                 THEN Respond("results", id, db, 404, EmptyDict)
                 ELSE Respond("results", id, db, 200, [rows |-> api.results[id]])]
    /\ UNCHANGED <<profVars, cmp>>

\* delete_job as it would be if Job.results had no delete cascade
delete_job_no_cascade(id, db) ==
    /\ api' = IF db # "ok"
              THEN [api EXCEPT !.resp = Respond("delete", id, db, 500, EmptyDict)]
              ELSE IF id \notin DOMAIN api.jobs
              THEN [api EXCEPT !.resp = Respond("delete", id, db, 404, EmptyDict)]
              ELSE [api EXCEPT
                      !.jobs = Without(@, id),
                      !.resp = Respond("delete", id, db, 200,
                                       [message |-> "Job deleted successfully"])]
    /\ UNCHANGED <<profVars, cmp>>

\* DELETE /api/v1/jobs/{job_id}: db.delete(job); the relationship's cascade
\* "all, delete-orphan" deletes the rows of profiling_results with it
delete_job(id, db) ==
    /\ api' = IF db # "ok"
              THEN [api EXCEPT !.resp = Respond("delete", id, db, 500, EmptyDict)]
              ELSE IF id \notin DOMAIN api.jobs
              THEN [api EXCEPT !.resp = Respond("delete", id, db, 404, EmptyDict)]
              ELSE [api EXCEPT
                      !.jobs = Without(@, id),
                      !.results = Without(@, id),
                      !.resp = Respond("delete", id, db, 200,
                                       [message |-> "Job deleted successfully"])]
    /\ UNCHANGED <<profVars, cmp>>

\* job_id of the row compare_algorithms makes for an algorithm
CompareJobId(comparison_id, algorithm) == comparison_id \o "_" \o algorithm

\* POST /api/v1/compare: one pending row per algorithm, committed together (a
\* name given twice breaks the unique job_id, so nothing is stored and the
\* answer is 500); no task is queued; the answer names the comparison
compare_algorithms(algorithms, db) ==
    /\ api.nextCmp < MaxCompares
    /\ LET cid == NewComparisonId
           n == Len(algorithms)
           unique == \A i, j \in 1..n : algorithms[i] = algorithms[j] => i = j
           rows == [id \in {CompareJobId(cid, algorithms[i]) : i \in 1..n} |->
                      NewJob(CHOOSE a \in {algorithms[i] : i \in 1..n} :
                                 CompareJobId(cid, a) = id)]
       IN api' = IF db = "ok" /\ unique
                 THEN [api EXCEPT
                         !.jobs = rows @@ @,
                         !.results = [id \in DOMAIN rows |-> 0] @@ @,
                         !.nextCmp = @ + 1,
                         !.resp = Respond("compare", cid, db, 200,
                                    [comparison_id |-> cid, algorithms |-> algorithms,
                                     input_size |-> 1000, status |-> "pending"])]
                 ELSE [api EXCEPT
                         !.nextCmp = @ + 1,
                         !.resp = Respond("compare", cid, db, 500, EmptyDict)]
    /\ UNCHANGED <<profVars, cmp>>

\* mark_failed as it would be if it recorded the status alone
mark_failed_bare(a, id, db2) ==
    IF db2 = "ok" /\ id \in DOMAIN a.jobs
    THEN [a EXCEPT !.jobs[id].status = "failed"]
    ELSE a

\* the except branch of profile_algorithm_task, in a session of its own: the
\* job, if it is still there, is marked failed with str(e); when that session
\* raises too (db2), the error is logged and the row stays as it was
mark_failed(a, id, db2) ==
    IF db2 = "ok" /\ id \in DOMAIN a.jobs
    THEN [a EXCEPT !.jobs[id].status = "failed",
                   !.jobs[id].error_message = "str(e)",
                   !.jobs[id].completed_at = TRUE]
    ELSE a

\* profile_algorithm_task, first session: the job is marked running, whatever
\* its status was; a job that is not there raises ValueError, a failing session
\* raises as well, and either way the except branch runs and the task raises
profile_algorithm_task_start(id, db, db2) ==
    /\ id \in DOMAIN api.tasks
    /\ api.tasks[id] = "queued"
    /\ api' = IF db = "ok" /\ id \in DOMAIN api.jobs
              THEN [api EXCEPT !.jobs[id].status = "running",
                               !.jobs[id].started_at = TRUE,
                               !.tasks[id] = "running"]
              ELSE [mark_failed(api, id, db2) EXCEPT !.tasks[id] = "raised"]
    /\ UNCHANGED <<profVars, cmp>>

\* profile_algorithm_task, second session: the result row is added and the job
\* marked completed in one commit; when the job has been deleted meanwhile,
\* job.id raises AttributeError; a failed commit is rolled back
profile_algorithm_task_save(id, db, db2) ==
    /\ id \in DOMAIN api.tasks
    /\ api.tasks[id] = "running"
    /\ api' = IF db = "ok" /\ id \in DOMAIN api.jobs
              THEN [api EXCEPT !.results[id] = @ + 1,
                               !.jobs[id].status = "completed",
                               !.jobs[id].completed_at = TRUE,
                               !.tasks[id] = "done"]
              ELSE [mark_failed(api, id, db2) EXCEPT !.tasks[id] = "raised"]
    /\ UNCHANGED <<profVars, cmp>>

\* profile_algorithm_task when the profiling itself raised: the except branch
\* runs and the exception is re-raised
profile_algorithm_task_failed(id, db2) ==
    /\ id \in DOMAIN api.tasks
    /\ api.tasks[id] = "running"
    /\ api' = [mark_failed(api, id, db2) EXCEPT !.tasks[id] = "raised"]
    /\ UNCHANGED <<profVars, cmp>>

\* task_acks_late: the message is acknowledged only after the task has returned
\* or raised, so a worker lost before the acknowledgement makes the broker
\* deliver the message again, to run profile_algorithm_task from its start
redeliver(id) ==
    /\ id \in DOMAIN api.tasks
    /\ api.tasks[id] \in {"running", "done", "raised"}
    /\ api.redelivered < MaxRedeliveries
    /\ api' = [api EXCEPT !.tasks[id] = "queued", !.redelivered = @ + 1]
    /\ UNCHANGED <<profVars, cmp>>

NextApi ==
    \/ \E a \in AlgorithmNames, db \in {"ok", "error"} : create_job(a, db)
    \/ \E id \in DOMAIN api.tasks, ok \in BOOLEAN : add_job(id, ok)
    \/ \E id \in AskIds, db \in {"ok", "error"} : get_job(id, db)
    \/ \E id \in AskIds, db \in {"ok", "error"} : get_job_results(id, db)
    \/ \E id \in AskIds, db \in {"ok", "error"} : delete_job(id, db)
    \/ \E l \in CompareLists, db \in {"ok", "error"} : compare_algorithms(l, db)
    \/ \E id \in DOMAIN api.tasks, db \in {"ok", "error"}, db2 \in {"ok", "error"} :
           profile_algorithm_task_start(id, db, db2)
    \/ \E id \in DOMAIN api.tasks, db \in {"ok", "error"}, db2 \in {"ok", "error"} :
           profile_algorithm_task_save(id, db, db2)
    \/ \E id \in DOMAIN api.tasks, db2 \in {"ok", "error"} :
           profile_algorithm_task_failed(id, db2)
    \/ \E id \in DOMAIN api.tasks : redeliver(id)

SpecApi == Init /\ [][NextApi]_vars

\* the ids create_job gives out
JobIds == {"U" \o ToString(i) : i \in 1..MaxJobs}

\* the background task of a response is run, and a worker keeps consuming the
\* profiling queue: a delivered task is started and a started one ends
FairSpecApi ==
    /\ SpecApi
    /\ WF_vars(\E id \in JobIds, ok \in BOOLEAN : add_job(id, ok))
    /\ WF_vars(\E id \in JobIds, db \in {"ok", "error"}, db2 \in {"ok", "error"} :
                  \/ profile_algorithm_task_start(id, db, db2)
                  \/ profile_algorithm_task_save(id, db, db2)
                  \/ profile_algorithm_task_failed(id, db2))

----------------------------------------------------------------------------
(* Properties of the AlgorithmProfiling reconciliation *)

Created(r) == store[r].created
Deleted(r) == store[r].created /\ ~store[r].exists
TypeOf(r) == store[r].spec.algorithmType
HasResults(r) == "results" \in DOMAIN store[r].status

Rank(phase) ==
    CASE phase = "Pending" -> 1
      [] phase = "Running" -> 2
      [] phase \in Terminal -> 3
      [] OTHER -> 0

\* C1: the phase values written to a resource's status, in the order they were
\* written, follow Pending -> Running -> {Completed | Failed}: no written value
\* lies earlier in that order than the one written before it (writing the
\* same non-terminal phase again is let pass), and nothing at all is written
\* after a terminal phase.
C1_PhaseSequenceMonotonic ==
    \A r \in Names :
        \A i \in 1..(Len(hist[r]) - 1) :
            /\ hist[r][i] \notin Terminal
            /\ Rank(hist[r][i]) <= Rank(hist[r][i + 1])

\* C2: no job-creation call (POST /api/v1/jobs, an ML endpoint call,
\* create_namespaced_job) is issued for a resource whose status already has
\* jobId set, however the Added event came to be delivered again.
C2_NoSecondJobCreation ==
    \A r \in Names : ~calls[r].redispatched

\* C3: a step that takes an Added or Modified event of a resource whose phase is
\* terminal (in the event's object and in the store) ignores it: the store and
\* the written phases stay as they are, no backend call is issued and no
\* dispatch is begun.
C3_TerminalEventIgnored ==
    [][ ( /\ HandleAdded \/ HandleModified
          /\ Get(Head(stream).object.status, "phase", "") \in Terminal
          /\ PhaseOf(Head(stream).object.name) \in Terminal )
        => ( /\ store' = store
             /\ hist' = hist
             /\ calls' = calls
             /\ pc'.at # "dispatch" ) ]_vars

\* C4: once status.jobId of a resource holds a value, every later state of the
\* resource holds the same value.
C4_JobHandleImmutable ==
    [][ \A r \in Names : JobIdOf(r) # "" => JobIdOf(r)' = JobIdOf(r) ]_vars

\* the watcher has nothing left to do: it waits on a stream that has no event
Quiescent == pc = AtStream /\ stream = <<>>

\* C5: for a deleted resource whose jobId is set, no status poll was issued
\* after the deletion, at most one DELETE call was made and it names that
\* jobId, and once the watcher has nothing left to handle exactly one was made.
C5_DeleteCancelsOnceAndStopsPolling ==
    \A r \in Names :
        (Deleted(r) /\ JobIdOf(r) # "") =>
            /\ ~calls[r].polledAfterDelete
            /\ Len(calls[r].cleanup) <= 1
            /\ \A i \in 1..Len(calls[r].cleanup) : calls[r].cleanup[i] = JobIdOf(r)
            /\ Quiescent => Len(calls[r].cleanup) = 1

\* C6: a sorting resource whose monitor has polled for longer than the declared
\* timeout is in phase Failed with reason TimeoutExceeded (the monitor is not
\* still polling a job that has not finished), and that reason is never given
\* before the timeout has passed.
C6_TimeoutEnds ==
    \A r \in Names :
        /\ (pc.at = "monitor" /\ pc.name = r /\ pc.polls > Timeout) =>
              /\ PhaseOf(r) = "Failed"
              /\ store[r].status["conditions"][1].message = "TimeoutExceeded"
        /\ (/\ "conditions" \in DOMAIN store[r].status
            /\ store[r].status["conditions"][1].message = "TimeoutExceeded") =>
              ~(pc.name = r /\ pc.polls <= Timeout)

\* C7: for a sorting resource, a successful create-job call whose patch is
\* accepted leaves jobId at the returned id and keeps phase Running, and a
\* poll that finds the job completed, for a resource in phase Running with that
\* jobId and with its patch accepted, leaves the resource in phase Completed
\* with results.
C7_SortingCompletes ==
    [][ \A r \in Names :
          /\ ( /\ create_sorting_profiling_job
               /\ pc.name = r
               /\ pc'.at = "monitor"
               /\ store' # store )
             => ( /\ JobIdOf(r)' = pc'.job
                  /\ PhaseOf(r) = "Running" => PhaseOf(r)' = "Running" )
          /\ ( /\ monitor_profiling_job
               /\ pc.name = r
               /\ PhaseOf(r) = "Running"
               /\ JobIdOf(r) = pc.job
               /\ psJobs[pc.job] = "completed"
               /\ pc' = AtStream
               /\ store' # store )
             => ( /\ PhaseOf(r)' = "Completed"
                  /\ HasResults(r)' ) ]_vars

\* C8: an ml resource that holds the results of its ML call is in phase
\* Completed, and Running was never written for it.
C8_MlDirectlyCompleted ==
    \A r \in Names :
        (TypeOf(r) = "ml" /\ HasResults(r)) =>
            /\ PhaseOf(r) = "Completed"
            /\ \A i \in 1..Len(hist[r]) : hist[r][i] # "Running"

MlTask(r) == Get(store[r].spec.mlConfig, "task", "feature_selection")

\* C9: the dispatch of an ml resource whose task has an ML endpoint issues
\* exactly one call, to the endpoint of that task, issues no job-creation call,
\* and returns to the watch stream without entering a monitor; no status poll
\* is ever issued for an ml resource.
C9_MlOneCallNoPoll ==
    /\ [](\A r \in Names :
            TypeOf(r) = "ml" =>
                /\ ~calls[r].polled
                /\ ~(pc.name = r /\ pc.at \in {"monitor", "monitor_custom"}))
    /\ [][ \A r \in Names :
             ( /\ pc.at = "dispatch" /\ pc.name = r
               /\ TypeOf(r) = "ml"
               /\ MlEndpoint(MlTask(r)) # ""
               /\ pc' # pc )
             => ( /\ calls'[r].ml = Append(calls[r].ml, MlEndpoint(MlTask(r)))
                  /\ calls'[r].create = calls[r].create
                  /\ pc' = AtStream ) ]_vars

\* an ml resource after its first reconciliation: one ML call made, the job id
\* and the results of the response in its status, the watcher back at its stream
C9_Witness ==
    \E r \in Names :
        /\ TypeOf(r) = "ml"
        /\ calls[r].ml = <<"/api/v1/ml/hyperparameter-tuning">>
        /\ JobIdOf(r) # ""
        /\ HasResults(r)
        /\ pc = AtStream

\* C10: the batch job of a custom resource has the image, command and args the
\* resource declares, and phase Completed is written for a custom resource only
\* by a poll of its batch job that finds job.status.succeeded set.
C10_CustomJobAsDeclared ==
    /\ [](\A r \in Names :
            TypeOf(r) = "custom" =>
                /\ clusterJobs[r].exists =>
                      \A k \in DOMAIN store[r].spec.customConfig :
                          clusterJobs[r][k] = store[r].spec.customConfig[k]
                /\ (\E i \in 1..Len(hist[r]) : hist[r][i] = "Completed") =>
                      /\ calls[r].polled
                      /\ clusterJobs[r].succeeded # 0)
    /\ [][ \A r \in Names :
             ( /\ TypeOf(r) = "custom"
               /\ hist'[r] # hist[r]
               /\ hist'[r][Len(hist'[r])] = "Completed" )
             => ( /\ monitor_custom_job
                  /\ pc.name = r
                  /\ clusterJobs[r].exists
                  /\ clusterJobs[r].succeeded # 0 ) ]_vars

\* a custom resource declaring alpine:latest / echo / hi whose batch job ran
\* with exactly that container and succeeded, and whose phase is Completed
C10_Witness ==
    \E r \in Names :
        /\ TypeOf(r) = "custom"
        /\ store[r].spec.customConfig =
              [image |-> "alpine:latest", command |-> <<"echo">>, args |-> <<"hi">>]
        /\ clusterJobs[r].image = "alpine:latest"
        /\ clusterJobs[r].command = <<"echo">>
        /\ clusterJobs[r].args = <<"hi">>
        /\ clusterJobs[r].succeeded # 0
        /\ PhaseOf(r) = "Completed"
\* the step is a dispatch of r's first reconciliation that ended in phase Failed
DispatchFailedStep(r) ==
    /\ pc.at = "dispatch"
    /\ pc.name = r
    /\ pc'.at = "stream"
    /\ JobIdOf(r) = ""
    /\ Len(hist[r]) <= 1
    /\ PhaseOf(r)' = "Failed"

\* C12: when the backend call of a dispatch fails for a resource that had no
\* phase and no job id when its reconciliation began, the resource gets phase
\* Failed with a completion time and a condition whose reason is
\* JobCreationError, and its job id stays unset.
C12_DispatchFailureRecorded ==
    [][\A r \in Names :
         DispatchFailedStep(r) =>
             LET st == store'[r].status
             IN /\ "completionTime" \in DOMAIN st
                /\ st["conditions"][1].reason = "JobCreationError"
                /\ "jobId" \notin DOMAIN st]_vars
\* the step is a monitor round for r whose calls raised
PollErrorStep(r) ==
    /\ pc.at \in {"monitor", "monitor_custom"}
    /\ pc.name = r
    /\ <<pc, calls>>' # <<pc, calls>>
    /\ calls'[r].pollErrors > 0

\* C13: a monitor round whose poll raised (transport error, backend unavailable,
\* non-2xx answer) writes nothing to the resource, so its phase stays as it was
\* and never becomes terminal by that round, and the monitor stays in its loop
\* for the same job to poll again, however many rounds have failed in a row.
C13_PollErrorRetried ==
    [][\A r \in Names :
         PollErrorStep(r) =>
             /\ store'[r] = store[r]
             /\ hist'[r] = hist[r]
             /\ pc'.at = pc.at /\ pc'.name = r /\ pc'.job = pc.job]_vars

\* MaxPolls rounds of the sorting monitor have failed in a row, the resource is
\* still Running and still monitored
C13_Witness ==
    \E r \in Names :
        /\ pc.at = "monitor" /\ pc.name = r
        /\ calls[r].pollErrors = MaxPolls
        /\ PhaseOf(r) = "Running"
\* the oldest event the watch has still to yield is of this type, for r
OldestIs(type, r) ==
    /\ stream # <<>>
    /\ Head(stream).type = type
    /\ Head(stream).object.name = r

\* C14: the events of a resource are handled in the order they arrived and one
\* at a time: a reconciliation of r begins, and the DELETED event of r is
\* handled, only while no reconciliation is active and only for the oldest
\* pending event; so no DELETED of r is handled while an ADDED of r is pending
\* or its job creation is under way.
C14_OneAtATimeInOrder ==
    [][\A r \in Names :
         /\ (pc' # pc /\ pc'.at = "dispatch" /\ pc'.name = r) =>
                (pc.at = "stream" /\ OldestIs("ADDED", r))
         /\ (calls'[r].deleteSeen /\ ~calls[r].deleteSeen) =>
                (pc.at = "stream" /\ OldestIs("DELETED", r))]_vars

\* the DELETED event of r has been handled after r's reconciliation had created
\* its job and returned
C14_Witness ==
    \E r \in Names :
        /\ calls[r].deleteSeen
        /\ calls[r].create > 0
        /\ calls[r].cleanup # <<>>
\* r is being monitored and its job has not ended
MonitoringUnfinished(r) ==
    /\ pc.at = "monitor"
    /\ pc.name = r
    /\ psJobs[pc.job] \in {"pending", "running"}

\* C15: while the reconciliation of one resource is polling a job that has not
\* ended, the ADDED event of another resource, if it is the next event of the
\* watch, can be taken and dispatched at once.
C15_OtherResourceNotBlocked ==
    \A r \in Names, q \in Names :
        (r # q /\ MonitoringUnfinished(r) /\ OldestIs("ADDED", q)) => ENABLED HandleAdded
\* the watcher is inside its for loop over a Watch: waiting for the next event,
\* or in the handler of one
OnWatch == pc.at \in {"stream", "dispatch", "monitor", "monitor_custom"}

C17_DeletionDeliveredAfterReconnect ==
    [][(pc.at = "sleep" /\ pc'.at = "stream") =>
          \A r \in Names :
              (store[r].deletedDown /\ hist[r] # <<>>) =>
                  \E i \in 1..Len(stream') :
                      /\ stream'[i].type = "DELETED"
                      /\ stream'[i].object.name = r]_vars
\* C18: the DELETE call of the dProfiler API is sent only for the job of a
\* sorting resource: the cleanup of a custom resource goes to the cluster, which
\* owns its job, and the cleanup of an ml resource makes no call.
C18_CleanupToOwningBackend ==
    \A r \in Names :
        calls[r].cleanup # <<>> => TypeOf(r) \notin {"ml", "custom"}
\* the step hands the DELETED event of r to cleanup_algorithm_profiling_job
CleanupStep(r) == calls'[r].deleteSeen /\ ~calls[r].deleteSeen

\* C19: the cleanup of a DELETED event never raises into the watch loop: with
\* or without a job id, with or without a status in the object, whether the
\* DELETE call succeeds or fails, the handler makes at most one DELETE call and
\* the loop stays on its Watch, ready for the next event.
C19_CleanupNeverRaises ==
    [][\A r \in Names :
         CleanupStep(r) =>
             /\ pc' = AtStream
             /\ stream' = Tail(stream)
             /\ Len(calls'[r].cleanup) <= Len(calls[r].cleanup) + 1]_vars
\* C20: no status patch is issued for a resource that has been deleted: a
\* monitor that was polling for it when it was deleted is cancelled, it does not
\* go on to issue a patch of the phase or of the results.
C20_NoWriteAfterDelete ==
    [][\A r \in Names :
         (pc.at \in {"monitor", "monitor_custom"} /\ pc.name = r) =>
             (store'[r].lateWrite = store[r].lateWrite)]_vars
\* C21: status.results is present only in a resource whose phase is Completed;
\* no resource whose phase is absent, Pending, Running or Failed has results.
C21_ResultsOnlyWhenCompleted ==
    \A r \in Names : HasResults(r) => PhaseOf(r) = "Completed"\* the handling of a MODIFIED event that raises nothing and creates no job
ModifiedHandledQuietly ==
    /\ HandleModified
    /\ pc'.at # "sleep"
    /\ \A r \in Names : calls'[r].create = calls[r].create /\ calls'[r].ml = calls[r].ml

\* C25: when the next event is MODIFIED for a resource whose phase is Pending or
\* Running and whose job id is set, as the events of the operator's own status
\* patches are, its handling creates no job and raises nothing: the watch is
\* neither aborted nor restarted by it.
C25_ModifiedKeepsWatch ==
    (/\ HeadIs("MODIFIED")
     /\ Get(Head(stream).object.status, "phase", "") \in {"Pending", "Running"}
     /\ Get(Head(stream).object.status, "jobId", "") # "")
        => ENABLED ModifiedHandledQuietly
\* C26: a resource in phase Running has its job id set: Running is written only
\* after the dispatch succeeded, so a resource whose dispatch fails is never
\* seen in phase Running.
C26_RunningHasJobId ==
    \A r \in Names : PhaseOf(r) = "Running" => JobIdOf(r) # ""
\* C27: at most one monitor loop is running for a resource at any time, however
\* often its ADDED and MODIFIED events are delivered again.
C27_OneMonitorPerResource ==
    \A r \in Names : calls[r].monitors <= 1

\* a monitor is running for a resource that has had a job created, and a
\* monitor run, on an earlier delivery of its ADDED event
C27_Witness ==
    \E r \in Names :
        /\ calls[r].monitors = 1
        /\ calls[r].create >= 2
        /\ pc.at = "monitor" /\ pc.name = r
        /\ restarts > 0
\* status.conditions of a resource, the empty list when absent
ConditionsOf(r) == Get(store[r].status, "conditions", <<>>)

\* C28: phase updates append to status.conditions: the list has one entry for
\* each phase update applied to the resource, in the order they were applied.
C28_ConditionsAppended ==
    \A r \in Names :
        /\ Len(ConditionsOf(r)) = Len(hist[r])
        /\ \A i \in 1..Len(ConditionsOf(r)) : ConditionsOf(r)[i].reason = hist[r][i]
\* the step is the watcher issuing the phase update Running for r, which exists
RunningUpdateIssued(r) ==
    /\ pc.at = "stream"
    /\ pc'.at = "dispatch"
    /\ pc'.name = r
    /\ store[r].exists

\* C29: one refused status patch call does not lose the update: a refused call
\* is repeated, so when the watcher issues the phase update Running for a
\* resource that exists, Running is recorded once the update has been made.
C29_RefusedPatchNotLost ==
    [][\A r \in Names :
         RunningUpdateIssued(r) => hist'[r] = Append(hist[r], "Running")]_vars
\* what GET /api/v1/jobs/{job_id} answers as error_message: the worker stores
\* str(e) with status failed, and nothing otherwise
error_message(j) == IF psJobs[j] = "failed" THEN "str(e)" ELSE ""

\* the step is the monitor of r leaving its loop on a poll that answered with a
\* failed Profiling Service job, while r exists
ServiceFailureSeen(r) ==
    /\ pc.at = "monitor"
    /\ pc.name = r
    /\ psJobs[pc.job] = "failed"
    /\ pc'.at = "stream"
    /\ store[r].exists

\* the same for the monitor of a custom job whose cluster job has failed
ClusterFailureSeen(r) ==
    /\ pc.at = "monitor_custom"
    /\ pc.name = r
    /\ clusterJobs[r].succeeded = 0
    /\ clusterJobs[r].failed # 0
    /\ pc'.at = "stream"
    /\ store[r].exists

\* C31: a monitor poll that reports the backend job failed takes the resource
\* to phase Failed with the failure message the backend supplied, ends the
\* monitor, and writes no results.
C31_BackendFailureRecorded ==
    [][\A r \in Names :
         /\ ServiceFailureSeen(r) =>
                /\ PhaseOf(r)' = "Failed"
                /\ store'[r].status["conditions"][1].message = error_message(pc.job)
                /\ HasResults(r)' = HasResults(r)
         /\ ClusterFailureSeen(r) =>
                /\ PhaseOf(r)' = "Failed"
                /\ HasResults(r)' = HasResults(r)]_vars
\* how many accepted phase updates of r carried startTime: those to Running
StartTimeWrites(r) == Cardinality({i \in 1..Len(hist[r]) : hist[r][i] = "Running"})

\* C33: a resource has a completionTime exactly when its phase is Completed or
\* Failed, and its startTime is written at most once.
C33_TimesMatchPhase ==
    \A r \in Names :
        /\ ("completionTime" \in DOMAIN store[r].status) <=> (PhaseOf(r) \in Terminal)
        /\ StartTimeWrites(r) <= 1
\* C34: for a custom resource at most one batch job exists at any time and at
\* most one is ever made, however often Added is delivered for it: a creation
\* attempt made while the job named after the resource exists makes no job.
C34_OneClusterJob ==
    /\ [](\A r \in Names : clusterJobs[r].made <= 1)
    /\ [][\A r \in Names :
            clusterJobs[r].exists =>
                /\ clusterJobs'[r].exists
                /\ clusterJobs'[r].made = clusterJobs[r].made
                /\ clusterJobs'[r].image = clusterJobs[r].image]_vars
\* a custom resource for which a creation attempt was made again while its
\* status named the batch job made before, and one batch job exists
C34_Witness ==
    \E r \in Names :
        /\ TypeOf(r) = "custom"
        /\ calls[r].create >= 2
        /\ calls[r].redispatched
        /\ restarts > 0
        /\ clusterJobs[r].exists
        /\ clusterJobs[r].made = 1


----------------------------------------------------------------------------
(* Properties of the dProfiler API service *)

\* the last request was this operation and the database answered it
Answered(op) == api.resp.op = op /\ api.resp.db = "ok"

\* C22: creating a job stores a row with status pending under a job_id that was
\* never used before, and answers with that row; and a GET of the job_id of a
\* job that is in the table answers 200 with that job_id and the algorithm_name
\* the job was created with.
C22_CreateThenGet ==
    /\ [](Answered("get") /\ api.resp.id \in DOMAIN api.jobs =>
            /\ api.resp.code = 200
            /\ api.resp.body.job_id = api.resp.id
            /\ api.resp.body.algorithm_name = api.asked[api.resp.id])
    /\ [][api'.nextId # api.nextId =>
            LET id == api'.resp.id
            IN /\ id \notin DOMAIN api.asked
               /\ id \notin DOMAIN api.jobs
               /\ id \in DOMAIN api'.jobs
               /\ api'.jobs[id].status = "pending"
               /\ api'.jobs[id].algorithm_name = api'.asked[id]
               /\ api'.resp.code = 200
               /\ api'.resp.body = JobResponse(id, api'.jobs[id])]_vars

\* a job was created, the worker has run it, and a GET has just answered for it
C22_Witness ==
    /\ Answered("get")
    /\ api.resp.code = 200
    /\ api.resp.id \in DOMAIN api.jobs
    /\ api.jobs[api.resp.id].status = "completed"
    /\ api.resp.body.status = "completed"
\* C23: a GET of a job_id that is not in the table, whether it was never
\* created or was created and deleted, answers 404; a DELETE of a job that is
\* in the table answers 200 and removes the job, and no result row of a job
\* that is gone is left.
C23_MissingJobIs404 ==
    /\ [](/\ (Answered("get") /\ api.resp.id \notin DOMAIN api.jobs) =>
                api.resp.code = 404
          /\ \A id \in DOMAIN api.results :
                id \notin DOMAIN api.jobs => api.results[id] = 0)
    /\ [][(api'.resp.op = "delete" /\ api'.resp.db = "ok"
             /\ api'.resp.id \in DOMAIN api.jobs) =>
            /\ api'.resp.code = 200
            /\ api'.resp.id \notin DOMAIN api'.jobs]_vars

\* a job that had a result row was deleted, and a GET of it has just answered 404
C23_Witness ==
    /\ Answered("get")
    /\ api.resp.code = 404
    /\ api.resp.id \in DOMAIN api.tasks
    /\ api.tasks[api.resp.id] = "done"
\* C24: a compare request for k algorithm names that is answered 200 carries a
\* comparison_id and a results list of exactly k entries.
C24_CompareReturnsResults ==
    (Answered("compare") /\ api.resp.code = 200) =>
        /\ "comparison_id" \in DOMAIN api.resp.body
        /\ "results" \in DOMAIN api.resp.body
        /\ Len(api.resp.body["results"]) = Len(api.resp.body["algorithms"])\* the step is an execution of profile_algorithm_task for id ending in its
\* except branch
TaskRaises(id) ==
    /\ id \in DOMAIN api.tasks
    /\ api.tasks[id] \in {"queued", "running"}
    /\ api'.tasks[id] = "raised"

\* the row of id says failed, with the error and the time it ended
MarkedFailed(job) ==
    /\ job.status = "failed"
    /\ job.error_message # ""
    /\ job.completed_at

\* C32 as claimed: a task that raises leaves its job, if the row is still there,
\* marked failed with error_message and completed_at; with no row, no row is made.
C32_RaisedTaskMarksFailed ==
    [][\A id \in DOMAIN api.tasks :
         TaskRaises(id) =>
             IF id \in DOMAIN api.jobs
             THEN id \in DOMAIN api'.jobs /\ MarkedFailed(api'.jobs[id])
             ELSE api'.jobs = api.jobs /\ api'.results = api.results]_vars

\* C32: a task that raises leaves its job, if the row is still there, either
\* marked failed with error_message and completed_at or, when the session of
\* the except branch failed too, exactly as it was; it changes no other row and
\* no result, and with no row for the job it makes none.
C32_RaisedTaskMarksFailedOrLogs ==
    [][\A id \in DOMAIN api.tasks :
         TaskRaises(id) =>
             /\ api'.results = api.results
             /\ DOMAIN api'.jobs = DOMAIN api.jobs
             /\ \A j \in DOMAIN api.jobs :
                    \/ api'.jobs[j] = api.jobs[j]
                    \/ j = id /\ MarkedFailed(api'.jobs[j])]_vars
C32_Witness ==
    \E id \in DOMAIN api.jobs \cap DOMAIN api.tasks :
        /\ api.tasks[id] = "raised"
        /\ MarkedFailed(api.jobs[id])
        /\ api.jobs[id].started_at
        /\ api.results[id] = 0
\* C36: a job has rows in profiling_results only if its status is completed,
\* whatever executions of profile_algorithm_task there were for it.
C36_ResultsOnlyIfCompleted ==
    \A id \in DOMAIN api.jobs :
        api.results[id] > 0 => api.jobs[id].status = "completed"

\* the order of Job.status
JobRank(status) ==
    CASE status = "pending" -> 1
      [] status = "running" -> 2
      [] OTHER -> 3

\* C37: the status of a job only moves forward, from pending to running to
\* completed or failed; once it is completed or failed no step changes it or
\* adds a result, and a job never has a second result.
C37_JobStatusForward ==
    [][\A id \in DOMAIN api.jobs \cap DOMAIN api'.jobs :
         /\ JobRank(api'.jobs[id].status) >= JobRank(api.jobs[id].status)
         /\ api.jobs[id].status \in {"completed", "failed"} =>
                /\ api'.jobs[id].status = api.jobs[id].status
                /\ api'.results[id] = api.results[id]
         /\ api'.results[id] <= 1]_vars
\* C38: every job made by create_job is in the end completed or failed (or
\* deleted), also when the task could not be handed to the queue.
C38_JobEnds ==
    \A id \in JobIds :
        (id \in DOMAIN api.jobs) ~>
            (id \notin DOMAIN api.jobs \/ api.jobs[id].status \in {"completed", "failed"})


----------------------------------------------------------------------------
(* Properties of the AlgorithmComparison reconciliation *)

\* the handler of c has returned with the results of its comparison recorded
CmpSettled(c) ==
    /\ cmp.pc.name # c
    /\ cmp.store[c].exists
    /\ cmp.calls[c].answered
    /\ "results" \in DOMAIN cmp.store[c].status

\* C11: a comparison of which at least one sub-job failed is in phase Failed
\* once its reconciliation has returned, even if the other sub-jobs succeeded;
\* and a comparison is in phase Completed only if every sub-job succeeded.
C11_FailedIfAnySubJobFails ==
    \A c \in CmpNames :
        /\ (CmpSettled(c) /\ cmp.calls[c].subFailed # {}) => CmpPhaseOf(c) = "Failed"
        /\ CmpPhaseOf(c) = "Completed" =>
               (cmp.calls[c].answered /\ cmp.calls[c].subFailed = {})

\* the step is the dispatch of comparison c returning to the watch loop
CmpDispatchReturns(c) ==
    /\ cmp.pc.at = "dispatch"
    /\ cmp.pc.name = c
    /\ cmp'.pc.at = "stream"

\* C30: reconciling a comparison that declares N algorithm entries makes N
\* dispatch calls, one for each entry, and its phase leaves Running only when
\* a sub-job of every one of the N entries has been dispatched and has ended.
C30_OneDispatchPerAlgorithm ==
    [][\A c \in CmpNames :
         CmpDispatchReturns(c) =>
             LET n == Len(cmp.store[c].spec.algorithms)
                 made == cmp'.calls[c].compare - cmp.calls[c].compare
             IN /\ made = n
                /\ (CmpPhaseOf(c) = "Running" /\ CmpPhaseOf(c)' # "Running") =>
                       (made = n /\ cmp'.calls[c].answered)]_vars

----------------------------------------------------------------------------
(* Properties of the two watchers together *)

\* a watcher is in its Watch with no event to take: it waits for the next one
ProfilingsWaiting == pc.at = "stream" /\ stream = <<>>
ComparisonsWaiting == cmp.pc.at = "stream" /\ cmp.stream = <<>>

\* a comparison exists that no Watch has delivered yet, and the comparisons
\* watcher is about to make its Watch
ComparisonUnseen(c) ==
    /\ cmp.store[c].exists
    /\ cmp.hist[c] = <<>>
    /\ cmp.pc.at = "sleep"
    /\ cmp.restarts < MaxRestarts

\* C35: the two watchers go on independently: while the comparisons watcher
\* waits for the next event of its Watch, a running monitor of a profiling can
\* make its next poll; and while the profilings watcher waits for the next
\* event of its Watch, the comparisons watcher can make its Watch and so come
\* to handle a comparison that exists.
C35_WatchersIndependent ==
    /\ \A r \in Names :
           (MonitoringUnfinished(r) /\ ComparisonsWaiting) =>
               ENABLED (ComparisonsYield /\ monitor_profiling_job)
    /\ \A c \in CmpNames :
           (ProfilingsWaiting /\ ComparisonUnseen(c)) =>
               ENABLED (ProfilingsYield /\ CmpWatchRestart)

====
